---- MODULE Spec2Model ----
(***************************************************************************)
(* Model of mailparse (src/src/main.rs): the postfix log line classifier   *)
(* ParsedLine::parse, the per-file aggregator State::eat, the shard loop   *)
(* and lookup fallback of run, and the resolver display /                  *)
(* display_recursively.                                                    *)
(*                                                                         *)
(* A log line is a TLA+ string, one character per byte.  The character "~" *)
(* stands for a byte that is not valid UTF-8 and "?" for U+FFFD, the       *)
(* replacement String::from_utf8_lossy substitutes for it.                 *)
(***************************************************************************)
EXTENDS Integers, Sequences, FiniteSets, TLC

(***************************************************************************)
(* nom combinators (complete variants).  A parser takes the line s and the *)
(* position i of the next unread byte (1-based) and returns the position   *)
(* after what it consumed, or Fail.  A Fail input position propagates, so  *)
(* that nesting calls models nom's tuple((...)) sequencing.                *)
(***************************************************************************)
Fail == 0

chars(str) == {SubSeq(str, k, k) : k \in 1..Len(str)}

tag(t, s, i) ==
    IF i = Fail \/ i + Len(t) - 1 > Len(s) THEN Fail
    ELSE IF SubSeq(s, i, i + Len(t) - 1) = t THEN i + Len(t) ELSE Fail

take(n, s, i) ==
    IF i = Fail \/ i + n - 1 > Len(s) THEN Fail ELSE i + n

\* the least element of a non-empty set of positions
first(positions) == CHOOSE j \in positions : \A k \in positions : j <= k

take_until(t, s, i) ==
    LET hits == {j \in i..(Len(s) - Len(t) + 1) : SubSeq(s, j, j + Len(t) - 1) = t}
    IN  IF i = Fail \/ hits = {} THEN Fail ELSE first(hits)

\* the position after the longest run of bytes of set that starts at i
span(set, s, i) ==
    LET stops == {j \in i..Len(s) : SubSeq(s, j, j) \notin set}
    IN  IF stops = {} THEN Len(s) + 1 ELSE first(stops)

\* is_a that accepts an empty run
is_a_or_nothing(set, s, i) ==
    IF i = Fail THEN Fail ELSE span(set, s, i)

is_a(set, s, i) ==
    IF i = Fail THEN Fail
    ELSE LET j == span(set, s, i) IN IF j = i THEN Fail ELSE j

eof(s, i) == IF i # Fail /\ i = Len(s) + 1 THEN i ELSE Fail

rest(s, i) == IF i = Fail THEN Fail ELSE Len(s) + 1

\* opt(p): r is p's result from position i
opt(r, i) == IF i = Fail THEN Fail ELSE IF r = Fail THEN i ELSE r

\* String::from_utf8_lossy(..).to_string()
RECURSIVE from_utf8_lossy(_)
from_utf8_lossy(bytes) ==
    IF bytes = "" THEN ""
    ELSE IF Len(bytes) = 1 THEN (IF bytes = "~" THEN "?" ELSE bytes)
    ELSE from_utf8_lossy(SubSeq(bytes, 1, Len(bytes) \div 2))
             \o from_utf8_lossy(SubSeq(bytes, Len(bytes) \div 2 + 1, Len(bytes)))

\* the text a capturing parser matched between positions i and j
capture(s, i, j) == from_utf8_lossy(SubSeq(s, i, j - 1))

(***************************************************************************)
(* Character classes of the is_a calls                                     *)
(***************************************************************************)
HexChars == chars("0123456789ABCDEF")
Digits == chars("0123456789")
DigitsDot == chars("0123456789.")
DigitsDotSlash == chars("0123456789./")
ClientChars ==
    chars("abcdefghijklmnopqrstuvwxyzABCDEFGHIJKLMNOPQRSTUVWXYZ0123456789.:-[]")
SaslUserChars ==
    chars("abcdefghijklmnopqrstuvwxyzABCDEFGHIJKLMNOPQRSTUVWXYZ0123456789.-@")
OrigClientChars ==
    chars("abcdefghijklmnopqrstuvwxyzABCDEFGHIJKLMNOPQRSTUVWXYZ0123456789.-[]")

(***************************************************************************)
(* ParsedLine                                                              *)
(***************************************************************************)
None == {}
Some(v) == {v}

Postfix(id, message_id, previous_id, next_id) ==
    [kind |-> "Postfix", id |-> id, message_id |-> message_id,
     previous_id |-> previous_id, next_id |-> next_id]
Unknown == [kind |-> "Unknown"]
Useless == [kind |-> "Useless"]

\* result of one alternative of the identifier-line alt: no match, or the
\* (message_id, previous_id, next_id) triple
NoMatch == [ok |-> FALSE]
Matched(message_id, previous_id, next_id) ==
    [ok |-> TRUE, message_id |-> message_id, previous_id |-> previous_id,
     next_id |-> next_id]

\* alt((a, b)) on positions and on triples: the first alternative that matches
alt(a, b) == IF a # Fail THEN a ELSE b
alt_matched(a, b) == IF a.ok THEN a ELSE b

\* value((None, None, None), p): r is p's result
value_nothing(r) == IF r # Fail THEN Matched(None, None, None) ELSE NoMatch

\* alt over a list of tags: the first tag of the list that matches at i
alt_tags(tags, s, i) ==
    LET hits == {k \in DOMAIN tags : tag(tags[k], s, i) # Fail}
    IN  IF hits = {} THEN Fail ELSE tag(tags[first(hits)], s, i)

NoIdentifierTags ==
    << "Anonymous TLS connection established from ",
       "warning: ",
       "connect from ",
       "lost connection after ",
       "disconnect from ",
       "Untrusted TLS connection established to ",
       "Trusted TLS connection established to ",
       "connect to ",
       "Anonymous TLS connection established to ",
       "statistics: ",
       "NOQUEUE: ",
       "SSL_accept error from ",
       "Trusted TLS connection established from ",
       "Untrusted TLS connection established from ",
       "timeout after ",
       "improper command pipelining after ",
       "Verified TLS connection established to ",
       "too many errors ",
       "mapping DSN status ",
       "SSL_connect error to " >>

NothingTags ==
    << "enabling PIX workarounds: ",
       "lost connection with ",
       "discard: ",
       "reject: ",
       "filter: ",
       "Cannot start TLS: ",
       "conversation with " >>

shape_removed(s, i) == eof(s, tag("removed\n", s, i))

shape_nothing(s, i) == alt_tags(NothingTags, s, i)

shape_uid(s, i) ==
    eof(s, tag(">\n", s, take_until(">", s,
        tag(" from=<", s, is_a(Digits, s, tag("uid=", s, i))))))

shape_queue_active(s, i) ==
    eof(s, tag(" (queue active)\n", s, is_a(Digits, s, tag(", nrcpt=", s,
        is_a(Digits, s, tag(">, size=", s, take_until(">", s,
            tag("from=<", s, i))))))))

shape_returned(s, i) ==
    tag(", returned to sender", s, take_until(",", s,
        tag(">, status=", s, take_until(">", s, tag("from=<", s, i)))))

shape_client(s, i) ==
    eof(s, tag("\n", s, is_a(ClientChars, s, tag("client=", s, i))))

shape_client_sasl(s, i) ==
    eof(s, tag("\n", s, is_a(SaslUserChars, s, tag(", sasl_username=", s,
        take_until(",", s, tag(", sasl_method=", s, take_until(",", s,
            tag("client=", s, i))))))))

\* j is the position after "host <name>"
host_said(s, j) ==
    alt(tag(" said: ", s, j), tag(" refused to talk to me: ", s, j))

shape_host(s, i) == host_said(s, take_until(" ", s, tag("host ", s, i)))

\* delimited(..) around a map(..): the text between a and b is the value when
\* the closing parser, whose result is e, matched
message_id_between(s, a, b, e) ==
    IF e = Fail THEN NoMatch ELSE Matched(Some(capture(s, a, b)), None, None)
previous_id_between(s, a, b, e) ==
    IF e = Fail THEN NoMatch ELSE Matched(None, Some(capture(s, a, b)), None)
next_id_between(s, a, b, e) ==
    IF e = Fail THEN NoMatch ELSE Matched(None, None, Some(capture(s, a, b)))

message_id_value(s, a, b) ==
    message_id_between(s, a, b, eof(s, tag("\n", s, b)))
message_id_from(s, a) == message_id_value(s, a, take_until("\n", s, a))
shape_message_id(s, i) ==
    message_id_from(s, tag("message-id=", s, opt(tag("resent-", s, i), i)))

non_delivery_value(s, a, b) ==
    next_id_between(s, a, b, eof(s, tag("\n", s, b)))
non_delivery_from(s, a) == non_delivery_value(s, a, is_a(HexChars, s, a))
shape_non_delivery(s, i) ==
    non_delivery_from(s, tag("sender non-delivery notification: ", s, i))

orig_queue_id_value(s, a, b) ==
    previous_id_between(s, a, b,
        eof(s, tag("\n", s, is_a(OrigClientChars, s,
            tag(", orig_client=", s, b)))))
orig_queue_id_from(s, a) == orig_queue_id_value(s, a, is_a(HexChars, s, a))
shape_orig_queue_id(s, i) ==
    orig_queue_id_from(s,
        tag(", orig_queue_id=", s, take_until(",", s, tag("client=", s, i))))

\* the optional parts of a delivery status line
opt_orig_to(s, a) == opt(take_until(">", s, tag(">, orig_to=<", s, a)), a)
opt_conn_use(s, c) == opt(is_a(Digits, s, tag(", conn_use=", s, c)), c)

\* a delivery status line up to the relay, and from there up to and
\* including " ("
delivery_relay(s, i) ==
    opt_conn_use(s, take_until(",", s, tag(">, relay=", s,
        opt_orig_to(s, take_until(">", s, tag("to=<", s, i))))))

delivery_prefix(s, i) ==
    tag(" (", s, take_until(" ", s, tag(", status=", s,
        is_a(DigitsDot, s, tag(", dsn=", s,
            is_a(DigitsDotSlash, s, tag(", delays=", s,
                is_a(DigitsDot, s, tag(", delay=", s,
                    delivery_relay(s, i))))))))))

\* the alt after the prefix, which ended at p: a next id, or the rest
queued_value(s, a, b) == next_id_between(s, a, b, eof(s, tag(")\n", s, b)))
queued_from(s, a) == queued_value(s, a, is_a(HexChars, s, a))

\* delivery_clause that knows "queued as" only
delivery_clause_queued_only(s, p) ==
    alt_matched(
        queued_from(s, tag("250 2.0.0 Ok: queued as ", s, p)),
        value_nothing(rest(s, p)))

delivery_clause(s, p) ==
    alt_matched(
        queued_from(s, alt(tag("forwarded as ", s, p),
                           tag("250 2.0.0 Ok: queued as ", s, p))),
        value_nothing(rest(s, p)))
shape_delivery(s, i) == delivery_clause(s, delivery_prefix(s, i))

\* the alt of the shapes that follow "<id>: "
identifier_shapes(s, i) ==
    alt_matched(value_nothing(shape_removed(s, i)),
    alt_matched(value_nothing(shape_nothing(s, i)),
    alt_matched(value_nothing(shape_uid(s, i)),
    alt_matched(value_nothing(shape_queue_active(s, i)),
    alt_matched(value_nothing(shape_returned(s, i)),
    alt_matched(value_nothing(shape_client(s, i)),
    alt_matched(value_nothing(shape_client_sasl(s, i)),
    alt_matched(value_nothing(shape_host(s, i)),
    alt_matched(shape_message_id(s, i),
    alt_matched(shape_non_delivery(s, i),
    alt_matched(shape_orig_queue_id(s, i),
                shape_delivery(s, i))))))))))))

\* the map(..) that builds ParsedLine::Postfix: m is the result of the shapes
to_postfix(id, m) ==
    IF m.ok THEN Postfix(id, m.message_id, m.previous_id, m.next_id)
    ELSE Unknown

\* a line that begins with an identifier, which ends before position j
identifier_line(s, i, j) ==
    to_postfix(capture(s, i, j), identifier_shapes(s, tag(": ", s, j)))

\* a postfix line, from the position after "postfix<...> "
postfix_line(s, i) ==
    IF alt_tags(NoIdentifierTags, s, i) # Fail THEN Useless
    ELSE identifier_line(s, i, is_a(HexChars, s, i))

TimestampLen == Len("Jan 10 00:00:00 ")

\* the outer alt, from the position q after "postfix<...> " when that matched
postfix_or_unknown(line, q) ==
    IF q # Fail THEN postfix_line(line, q) ELSE Unknown

\* the outer alt, from the position p after the date and the hostname
after_hostname(line, p) ==
    IF p = Fail THEN Unknown
    ELSE IF tag("clamsmtp", line, p) # Fail THEN Useless
    ELSE IF tag("postlicyd", line, p) # Fail THEN Useless
    ELSE postfix_or_unknown(line,
             take(1, line, take_until(" ", line, tag("postfix", line, p))))

parse(line) ==
    after_hostname(line,
        take(1, line, take_until(" ", line, take(TimestampLen, line, 1))))

(***************************************************************************)
(* Block and State, State::new and State::eat                              *)
(***************************************************************************)
Range(f) == {f[k] : k \in DOMAIN f}

Block(creation_idx, id, file) ==
    [creation_idx |-> creation_idx, id |-> id, file |-> file, lines |-> <<>>,
     previous_ids |-> {}, next_ids |-> {}]

\* State::new: message_ids and blocks are maps, here functions whose domain
\* is the set of keys present
new(file) ==
    [next_block_creation_idx |-> 0, file |-> file, lines |-> <<>>,
     message_ids |-> <<>>, blocks |-> <<>>]

\* self.message_ids.entry(mid).or_insert_with(Vec::new).push(id)
push_message_id(message_ids, mid, id) ==
    IF mid \in DOMAIN message_ids
    THEN [message_ids EXCEPT ![mid] = Append(@, id)]
    ELSE message_ids @@ (mid :> <<id>>)

\* upsert_block that refers to the line after the one being eaten
upsert_block_next_line(self, id, this_line, previous_id, next_id) ==
    LET b == IF id \in DOMAIN self.blocks THEN self.blocks[id]
             ELSE Block(self.next_block_creation_idx, id, self.file)
        b2 == [b EXCEPT !.lines = Append(@, this_line + 1),
                        !.previous_ids = @ \cup previous_id,
                        !.next_ids = @ \cup next_id]
    IN  IF id \in DOMAIN self.blocks
        THEN [self.blocks EXCEPT ![id] = b2]
        ELSE self.blocks @@ (id :> b2)

\* self.blocks.entry(id).or_insert_with(..), then the pushes and inserts on it
upsert_block(self, id, this_line, previous_id, next_id) ==
    LET b == IF id \in DOMAIN self.blocks THEN self.blocks[id]
             ELSE Block(self.next_block_creation_idx, id, self.file)
        b2 == [b EXCEPT !.lines = Append(@, this_line),
                        !.previous_ids = @ \cup previous_id,
                        !.next_ids = @ \cup next_id]
    IN  IF id \in DOMAIN self.blocks
        THEN [self.blocks EXCEPT ![id] = b2]
        ELSE self.blocks @@ (id :> b2)

\* the string pushed on self.lines: the line apart from its last byte
stored_text(line) == from_utf8_lossy(SubSeq(line, 1, Len(line) - 1))

\* eat_parsed that keeps the text of a line it does not recognise
eat_parsed_keeping_unknown(self, line, parsed) ==
    IF parsed.kind = "Postfix"
    THEN [state |->
            [self EXCEPT
               !.message_ids =
                   IF parsed.message_id # None
                   THEN push_message_id(@, CHOOSE m \in parsed.message_id : TRUE,
                                        parsed.id)
                   ELSE @,
               !.blocks = upsert_block(self, parsed.id, Len(self.lines),
                                       parsed.previous_id, parsed.next_id),
               !.next_block_creation_idx =
                   IF parsed.id \in DOMAIN self.blocks THEN @ ELSE @ + 1,
               !.lines = Append(@, stored_text(line))],
          is_err |-> FALSE]
    ELSE IF parsed.kind = "Useless"
    THEN [state |-> self, is_err |-> FALSE]
    ELSE [state |-> [self EXCEPT !.lines = Append(@, stored_text(line))],
          is_err |-> TRUE]

\* State::eat on a line that parsed as `parsed`: the state after the call
\* and whether it returned Err(())
eat_parsed(self, line, parsed) ==
    IF parsed.kind = "Postfix"
    THEN [state |->
            [self EXCEPT
               !.message_ids =
                   IF parsed.message_id # None
                   THEN push_message_id(@, CHOOSE m \in parsed.message_id : TRUE,
                                        parsed.id)
                   ELSE @,
               !.blocks = upsert_block(self, parsed.id, Len(self.lines),
                                       parsed.previous_id, parsed.next_id),
               !.next_block_creation_idx =
                   IF parsed.id \in DOMAIN self.blocks THEN @ ELSE @ + 1,
               !.lines = Append(@, stored_text(line))],
          is_err |-> FALSE]
    ELSE IF parsed.kind = "Useless"
    THEN [state |-> self, is_err |-> FALSE]
    ELSE [state |-> self, is_err |-> TRUE]

eat(self, line) == eat_parsed(self, line, parse(line))

(***************************************************************************)
(* Ordering of transaction ids: String's Ord is bytewise lexicographic.    *)
(* Every id of a block or of a link was matched by is_a over HexChars, so  *)
(* the order of those sixteen bytes decides every comparison.              *)
(***************************************************************************)
ByteOrder == "0123456789ABCDEF"

byte_rank(c) ==
    IF c \in HexChars
    THEN CHOOSE k \in 1..Len(ByteOrder) : SubSeq(ByteOrder, k, k) = c
    ELSE 0

RECURSIVE str_lt(_, _)
str_lt(a, b) ==
    IF a = "" THEN b # ""
    ELSE IF b = "" THEN FALSE
    ELSE IF SubSeq(a, 1, 1) = SubSeq(b, 1, 1)
         THEN str_lt(SubSeq(a, 2, Len(a)), SubSeq(b, 2, Len(b)))
    ELSE byte_rank(SubSeq(a, 1, 1)) < byte_rank(SubSeq(b, 1, 1))

\* first element of a non-empty BTreeSet<String>
\* the greatest element in place of the least
btree_max(set) == CHOOSE a \in set : \A b \in set : a = b \/ str_lt(b, a)

btree_min(set) == CHOOSE m \in set : \A o \in set : o = m \/ str_lt(m, o)

\* the iteration from the greatest element down
RECURSIVE btree_iter_descending(_)
btree_iter_descending(set) ==
    IF set = {} THEN <<>>
    ELSE btree_iter_descending(set \ {btree_min(set)}) \o <<btree_min(set)>>

\* iteration order of a BTreeSet<String>
RECURSIVE btree_iter(_)
btree_iter(set) ==
    IF set = {} THEN <<>>
    ELSE <<btree_min(set)>> \o btree_iter(set \ {btree_min(set)})

(***************************************************************************)
(* display: the closures over states.  states maps each file to its State; *)
(* order is the iteration order of the states HashMap.                     *)
(***************************************************************************)
\* the keys of the blocks map of display
candidates(message_id, states) ==
    {id \in UNION {DOMAIN states[f].blocks : f \in DOMAIN states} :
        \E f \in DOMAIN states :
            /\ message_id \in DOMAIN states[f].message_ids
            /\ id \in Range(states[f].message_ids[message_id])
            /\ id \in DOMAIN states[f].blocks}

predecessors(states, id) ==
    UNION {states[f].blocks[id].previous_ids :
              f \in {g \in DOMAIN states : id \in DOMAIN states[g].blocks}}
    \cup {b_id \in UNION {DOMAIN states[f].blocks : f \in DOMAIN states} :
              \E f \in DOMAIN states :
                  /\ b_id \in DOMAIN states[f].blocks
                  /\ id \in states[f].blocks[b_id].next_ids}

\* successors from the next ids of the block alone
successors_own_side(states, id) ==
    UNION {states[f].blocks[id].next_ids :
              f \in {g \in DOMAIN states : id \in DOMAIN states[g].blocks}}

successors(states, id) ==
    UNION {states[f].blocks[id].next_ids :
              f \in {g \in DOMAIN states : id \in DOMAIN states[g].blocks}}
    \cup {b_id \in UNION {DOMAIN states[f].blocks : f \in DOMAIN states} :
              \E f \in DOMAIN states :
                  /\ b_id \in DOMAIN states[f].blocks
                  /\ id \in states[f].blocks[b_id].previous_ids}

\* the block closure: the block of the first state, in iteration order, that
\* has the id
RECURSIVE block(_, _, _)
block(states, order, id) ==
    IF order = <<>> THEN None
    ELSE IF id \in DOMAIN states[Head(order)].blocks
         THEN Some(states[Head(order)].blocks[id])
    ELSE block(states, Tail(order), id)

\* the line closure, states[path].lines[line]: an index out of range panics
line_in_range(states, path, l) ==
    path \in DOMAIN states /\ l + 1 \in DOMAIN states[path].lines

(***************************************************************************)
(* The root-finding loop of display.  explored is the path walked so far,  *)
(* the current id included; warned lists the ids reported as having more   *)
(* than one predecessor.                                                   *)
(***************************************************************************)
walk_result(error, root, explored, warned) ==
    [error |-> error, root |-> root, explored |-> explored, warned |-> warned]

warn_if_many(warned, id, pred) ==
    IF Cardinality(pred) > 1 THEN Append(warned, id) ELSE warned

RECURSIVE find_root(_, _, _, _, _)
\* to_parent with a visited predecessor taken as the end of the walk
to_parent_accepting_loop(states, displayed, id, explored, warned, parent) ==
    IF parent \in Range(explored)
    THEN walk_result("none", id, explored, warned)
    ELSE IF parent \in displayed
    THEN walk_result("ancestor", parent, explored, warned)
    ELSE find_root(states, displayed, parent, explored, warned)

\* the two ensure! of one iteration, then id = parent
to_parent(states, displayed, id, explored, warned, parent) ==
    IF parent \in Range(explored)
    THEN walk_result("loop", id, explored, warned)
    ELSE IF parent \in displayed
    THEN walk_result("ancestor", parent, explored, warned)
    ELSE find_root(states, displayed, parent, explored, warned)

\* walk_step that takes an id with several predecessors as the root
walk_step_stopping_at_many(states, displayed, id, explored, warned, pred) ==
    IF pred = {} \/ Cardinality(pred) > 1
    THEN walk_result("none", id, explored, warned)
    ELSE to_parent(states, displayed, id, explored, warned, btree_min(pred))

\* one iteration once pred is known
walk_step(states, displayed, id, explored, warned, pred) ==
    IF pred = {} THEN walk_result("none", id, explored, warned)
    ELSE to_parent(states, displayed, id, explored,
                   warn_if_many(warned, id, pred), btree_min(pred))

find_root(states, displayed, id, explored, warned) ==
    walk_step(states, displayed, id, Append(explored, id), warned,
              predecessors(states, id))

(***************************************************************************)
(* display_recursively.  acc carries what the calls share: the displayed   *)
(* set behind the visit closure, the blocks printed so far, the ids warned *)
(* about as having no block, and whether an expect or an index panicked.   *)
(***************************************************************************)
BaseIndent == 2
IndentStep == 4

NoOutput == [displayed |-> {}, out |-> <<>>, missing |-> <<>>, panicked |-> FALSE]

\* what one call prints for block b: the header with the predecessors, the
\* lines of the block, the footer with the successors
printed(states, root, indent, b) ==
    [id |-> root,
     indent |-> indent,
     coming_from |-> predecessors(states, root),
     lines |-> [k \in DOMAIN b.lines |-> states[b.file].lines[b.lines[k] + 1]],
     flowing_into |-> successors(states, root)]

\* width is the max over the lines of the block, each fetched by the line
\* closure: a block with no lines or a line index out of range panics
panics(states, b) ==
    \/ b.lines = <<>>
    \/ \E k \in DOMAIN b.lines : ~line_in_range(states, b.file, b.lines[k])

RECURSIVE display_recursively(_, _, _, _, _)
RECURSIVE display_successors(_, _, _, _, _)
\* the call once the visit closure returned true and the block b was found
display_block(states, order, root, indent, visited, b) ==
    IF panics(states, b) THEN [visited EXCEPT !.panicked = TRUE]
    ELSE display_successors(
             states, order, btree_iter(successors(states, root)),
             indent + IndentStep,
             [visited EXCEPT !.out = Append(@, printed(states, root, indent, b))])

\* the call once the visit closure returned true: found is block(&root)
display_visited(states, order, root, indent, visited, found) ==
    IF found = None THEN [visited EXCEPT !.missing = Append(@, root)]
    ELSE display_block(states, order, root, indent, visited,
                       CHOOSE v \in found : TRUE)

display_recursively(states, order, root, indent, acc) ==
    IF acc.panicked \/ root \in acc.displayed THEN acc
    ELSE display_visited(states, order, root, indent,
                         [acc EXCEPT !.displayed = @ \cup {root}],
                         block(states, order, root))

\* the for loop over successors(&root)
display_successors(states, order, succs, indent, acc) ==
    IF succs = <<>> THEN acc
    ELSE display_successors(
             states, order, Tail(succs), indent,
             display_recursively(states, order, Head(succs), indent, acc))

(***************************************************************************)
(* display.  iteration is the order in which blocks.iter() yields the      *)
(* candidate ids; a HashMap gives no order, so every permutation can occur.*)
(* A result holds found (the bool returned), error (the ensure! or panic   *)
(* that ended the call, "none" for Ok), what was printed, and the walks.   *)
(***************************************************************************)
NotFound ==
    [found |-> FALSE, error |-> "none", acc |-> NoOutput, walks |-> <<>>]
Found == [found |-> TRUE, error |-> "none", acc |-> NoOutput, walks |-> <<>>]

RECURSIVE display_loop(_, _, _, _)
\* after_thread with a displayed set that lasts one thread
after_thread_forgetting(states, order, todo, st, acc) ==
    IF acc.panicked THEN [st EXCEPT !.error = "panic", !.acc = acc]
    ELSE display_loop(states, order, todo,
                      [st EXCEPT !.acc = [acc EXCEPT !.displayed = {}]])

\* one iteration once display_recursively returned acc
after_thread(states, order, todo, st, acc) ==
    IF acc.panicked THEN [st EXCEPT !.error = "panic", !.acc = acc]
    ELSE display_loop(states, order, todo, [st EXCEPT !.acc = acc])

\* one iteration once the root-finding loop ended with walk
after_walk(states, order, todo, st, walk) ==
    IF walk.error # "none" THEN [st EXCEPT !.error = walk.error]
    ELSE after_thread(states, order, todo, st,
             display_recursively(states, order, walk.root, BaseIndent, st.acc))

\* one iteration of the for loop for a candidate not displayed yet
display_candidate(states, order, todo, st, walk) ==
    after_walk(states, order, todo, [st EXCEPT !.walks = Append(@, walk)], walk)

\* the for loop over blocks.iter()
display_loop(states, order, todo, st) ==
    IF todo = <<>> THEN st
    ELSE IF Head(todo) \in st.acc.displayed
    THEN display_loop(states, order, Tail(todo), st)
    ELSE display_candidate(states, order, Tail(todo), st,
             find_root(states, st.acc.displayed, Head(todo), <<>>, <<>>))

display(message_id, states, order, iteration) ==
    IF candidates(message_id, states) = {} THEN NotFound
    ELSE display_loop(states, order, iteration, Found)

Perms(set) ==
    {p \in [1..Cardinality(set) -> set] :
        \A a, b \in 1..Cardinality(set) : a # b => p[a] # p[b]}

(***************************************************************************)
(* Input: log lines, by shape                                              *)
(***************************************************************************)
Stamp == "Jan 10 00:00:00 mx "

LineMessageId(id, mid) ==
    Stamp \o "postfix/cleanup[1]: " \o id \o ": message-id=" \o mid \o "\n"
LineQueuedAs(id, next) ==
    Stamp \o "postfix/smtp[1]: " \o id
          \o ": to=<c@d>, relay=r, delay=1, delays=1/0/0/0, dsn=2.0.0, "
          \o "status=sent (250 2.0.0 Ok: queued as " \o next \o ")\n"
LineForwardedAs(id, next) ==
    Stamp \o "postfix/local[1]: " \o id
          \o ": to=<c@d>, orig_to=<e@f>, relay=local, delay=1, delays=1/0/0/0, "
          \o "dsn=2.0.0, status=sent (forwarded as " \o next \o ")\n"
LineOrigQueueId(id, previous) ==
    Stamp \o "postfix/smtpd[1]: " \o id \o ": client=h[1.2.3.4], orig_queue_id="
          \o previous \o ", orig_client=h[1.2.3.4]\n"
LineNonDelivery(id, next) ==
    Stamp \o "postfix/bounce[1]: " \o id
          \o ": sender non-delivery notification: " \o next \o "\n"
LineRemoved(id) == Stamp \o "postfix/qmgr[1]: " \o id \o ": removed\n"
LineConnect == Stamp \o "postfix/smtpd[1]: connect from h[1.2.3.4]\n"
LineGarbage == "garbage~\n"
\* the last line of a file that does not end with a newline
LineCutShort(id) == Stamp \o "postfix/smtpd[1]: " \o id \o ": reject: RCPT"

\* a hand-off A1 -> B2 and a third transaction carrying the same message
CatThread ==
    { LineMessageId("A1", "<m@x>"), LineQueuedAs("A1", "B2"),
      LineForwardedAs("A1", "B2"), LineRemoved("B2"),
      LineMessageId("C3", "<m@x>") }

\* B2 <-> C3 link to each other; A1 is another predecessor of B2
CatCycle ==
    { LineMessageId("A1", "<m@x>"), LineMessageId("B2", "<m@x>"),
      LineQueuedAs("B2", "C3"), LineNonDelivery("C3", "B2"),
      LineOrigQueueId("B2", "A1") }

\* lines that are ignored, not recognised or cut short, and both forms of
\* the message-id
CatNoise ==
    { LineMessageId("A1", "m@x"), LineMessageId("B2", "<m@x>"),
      LineConnect, LineGarbage, LineCutShort("A1") }

\* B2 and C3 both come from A1, whose own lines may be in no file read
CatOrphan ==
    { LineMessageId("B2", "<m@x>"), LineOrigQueueId("B2", "A1"),
      LineMessageId("C3", "<m@x>"), LineOrigQueueId("C3", "A1"),
      LineRemoved("A1") }

\* A1 -> B2 -> C3 -> B2, and B2 -> B2
CatKnot ==
    { LineMessageId("B2", "<m@x>"), LineQueuedAs("A1", "B2"),
      LineQueuedAs("B2", "C3"), LineNonDelivery("C3", "B2"),
      LineQueuedAs("B2", "B2") }

\* A1 flows into B2 and C3, and B2 into C3
CatTree ==
    { LineMessageId("A1", "<m@x>"), LineOrigQueueId("B2", "A1"),
      LineOrigQueueId("C3", "A1"), LineQueuedAs("B2", "C3"),
      LineMessageId("C3", "<m@x>") }

Catalogue(name) ==
    CASE name = "thread" -> CatThread
      [] name = "cycle" -> CatCycle
      [] name = "noise" -> CatNoise
      [] name = "orphan" -> CatOrphan
      [] name = "knot" -> CatKnot
      [] name = "tree" -> CatTree

CatalogueNames == {"thread", "cycle", "noise", "orphan", "knot", "tree"}

Files == {"mail.log", "mail.log.1"}

MessageIdArgs == {"m@x", "<m@x>"}

\* the number of lines read over all files
MaxLines == 4

(***************************************************************************)
(* The program: run                                                        *)
(***************************************************************************)
VARIABLES
    catalogue,       \* which lines the log files are made of
    states,          \* file -> State, the accumulator of the file's worker
    lineno,          \* file -> lineno of the worker's loop
    showed_message,  \* file -> showed_message of the worker's loop
    at_eof,          \* file -> the last line read did not end with a newline
    order,           \* iteration order of the collected states HashMap
    pc,              \* where run is
    message_id,      \* opt.message_id, once display reads it
    shown,           \* the result of each display call so far
    input,           \* the line given to the classifier on its own
    classified       \* what ParsedLine::parse returned for input

vars == <<catalogue, states, lineno, showed_message, at_eof, order, pc,
          message_id, shown, input, classified>>

\* a classifier input: the text, and the kind that the shapes of the grammar
\* give a line built this way
NoInput == [text |-> "", expect |-> "Unknown"]

RECURSIVE Sum(_, _)
Sum(f, set) ==
    IF set = {} THEN 0
    ELSE LET e == CHOOSE e \in set : TRUE IN f[e] + Sum(f, set \ {e})

InitIn(names) ==
    /\ catalogue \in names
    /\ states = [f \in Files |-> new(f)]
    /\ lineno = [f \in Files |-> 0]
    /\ showed_message = [f \in Files |-> FALSE]
    /\ at_eof = [f \in Files |-> FALSE]
    /\ order = <<>>
    /\ pc = "parsing"
    /\ message_id = None
    /\ shown = <<>>
    /\ input = NoInput
    /\ classified = None

Init == InitIn(CatalogueNames)

\* one iteration of a worker's loop that reads a line: read_until, then what
\* follows once eat returned r
AfterEat(f, l, r) ==
    /\ states' = [states EXCEPT ![f] = r.state]
    /\ showed_message' = [showed_message EXCEPT ![f] = @ \/ r.is_err]
    /\ lineno' = [lineno EXCEPT ![f] = @ + 1]
    /\ at_eof' = [at_eof EXCEPT ![f] = SubSeq(l, Len(l), Len(l)) # "\n"]
    /\ UNCHANGED <<catalogue, order, pc, message_id, shown, input, classified>>

ReadLine(f, l) ==
    /\ pc = "parsing"
    /\ ~at_eof[f]
    /\ Sum(lineno, Files) < MaxLines
    /\ AfterEat(f, l, eat(states[f], l))

\* every worker reads 0 bytes and leaves its loop; the states are collected
Collect(o) ==
    /\ pc = "parsing"
    /\ pc' = "parsed"
    /\ order' = o
    /\ lineno' = [f \in Files |-> lineno[f] + 1]
    /\ UNCHANGED <<catalogue, states, showed_message, at_eof, message_id, shown,
                   input, classified>>

\* after_display without the second lookup
after_display_literal_only(d, not_found) ==
    IF d.error # "none" THEN "failed" ELSE IF d.found THEN "done" ELSE "notfound"

\* where run goes after a display call returned d; not_found is where it goes
\* on Ok(false)
after_display(d, not_found) ==
    IF d.error # "none" THEN "failed" ELSE IF d.found THEN "done" ELSE not_found

Displayed(d, not_found) ==
    /\ shown' = Append(shown, d)
    /\ pc' = after_display(d, not_found)

\* display(&opt.message_id, states.clone())
DisplayLiteral(m, iteration) ==
    /\ pc = "parsed"
    /\ Displayed(display(m, states, order, iteration), "retry")
    /\ message_id' = Some(m)
    /\ UNCHANGED <<catalogue, states, lineno, showed_message, at_eof, order,
                   input, classified>>

bracketed(m) == "<" \o m \o ">"

\* display(&bracketed_mid, states), and the bail! when it finds nothing
DisplayBracketed(m, iteration) ==
    /\ pc = "retry"
    /\ message_id = Some(m)
    /\ Displayed(display(bracketed(m), states, order, iteration), "notfound")
    /\ UNCHANGED <<catalogue, states, lineno, showed_message, at_eof, order,
                   message_id, input, classified>>

Next ==
    \/ \E f \in Files : \E l \in Catalogue(catalogue) : ReadLine(f, l)
    \/ \E o \in Perms(Files) : Collect(o)
    \/ \E m \in MessageIdArgs :
           \E iteration \in Perms(candidates(m, states)) :
               DisplayLiteral(m, iteration)
    \/ \E m \in MessageIdArgs :
           \E iteration \in Perms(candidates(bracketed(m), states)) :
               DisplayBracketed(m, iteration)

Spec == Init /\ [][Next]_vars

(***************************************************************************)
(* The classifier on its own: one call of ParsedLine::parse on a line made *)
(* of a head (date and hostname), a subsystem and a body.  Each part says  *)
(* what the grammar makes of it: whether the head has the date and the     *)
(* hostname, which subsystem it is, and the kind of a postfix line with    *)
(* that body.                                                              *)
(***************************************************************************)
Heads ==
    { [text |-> Stamp, ok |-> TRUE],
      [text |-> "Jan 10 00:00:00  ", ok |-> TRUE],       \* empty hostname
      [text |-> "~~~~~~~~~~~~~~~~mx ", ok |-> TRUE],     \* sixteen arbitrary bytes
      [text |-> "", ok |-> FALSE],
      [text |-> "Jan 10 ", ok |-> FALSE] }               \* shorter than the date

Subsystems ==
    { [text |-> "postfix/smtpd[1]: ", sub |-> "postfix"],
      [text |-> "postfix ", sub |-> "postfix"],
      [text |-> "clamsmtpd: ", sub |-> "useless"],
      [text |-> "postlicyd[3]: ", sub |-> "useless"],
      [text |-> "dovecot: ", sub |-> "other"],
      [text |-> "", sub |-> "other"] }

Bodies ==
    { \* no identifier
      [text |-> "connect from h[1.2.3.4]\n", kind |-> "Useless"],
      [text |-> "warning: hostname h does not resolve\n", kind |-> "Useless"],
      [text |-> "NOQUEUE: reject: RCPT from h\n", kind |-> "Useless"],
      [text |-> "statistics: max connection rate 1/60s\n", kind |-> "Useless"],
      [text |-> "too many errors after RCPT", kind |-> "Useless"],
      \* an identifier and a shape with nothing
      [text |-> "A1: removed\n", kind |-> "Postfix"],
      [text |-> "A1: reject: RCPT from h\n", kind |-> "Postfix"],
      [text |-> "A1: discard: ~~\n", kind |-> "Postfix"],
      [text |-> "A1: conversation with h timed out", kind |-> "Postfix"],
      [text |-> "A1: uid=0 from=<root>\n", kind |-> "Postfix"],
      [text |-> "A1: from=<a@b>, size=100, nrcpt=1 (queue active)\n",
       kind |-> "Postfix"],
      [text |-> "A1: from=<a@b>, status=expired, returned to sender\n",
       kind |-> "Postfix"],
      [text |-> "A1: client=host[1.2.3.4]\n", kind |-> "Postfix"],
      [text |-> "A1: client=h[1.2.3.4], sasl_method=PLAIN, sasl_username=u@x\n",
       kind |-> "Postfix"],
      [text |-> "A1: host mx.x[1.2.3.4] said: 450 try later\n", kind |-> "Postfix"],
      [text |-> "A1: host mx.x[1.2.3.4] refused to talk to me: 554\n",
       kind |-> "Postfix"],
      [text |-> "A1: to=<c@d>, relay=r, delay=1, delays=1/0/0/0, dsn=4.0.0, "
                \o "status=deferred (connection timed out)\n",
       kind |-> "Postfix"],
      \* an identifier and a shape with a message-id or a link
      [text |-> "A1: message-id=<m@x>\n", kind |-> "Postfix"],
      [text |-> "A1: resent-message-id=<m@x>\n", kind |-> "Postfix"],
      [text |-> "A1: message-id=\n", kind |-> "Postfix"],
      [text |-> "A1: sender non-delivery notification: B2\n", kind |-> "Postfix"],
      [text |-> "A1: client=h[1.2.3.4], orig_queue_id=B2, orig_client=h[1.2.3.4]\n",
       kind |-> "Postfix"],
      [text |-> "A1: to=<c@d>, relay=r, delay=1, delays=1/0/0/0, dsn=2.0.0, "
                \o "status=sent (250 2.0.0 Ok: queued as B2)\n",
       kind |-> "Postfix"],
      [text |-> "A1: to=<c@d>, orig_to=<e@f>, relay=local, conn_use=2, delay=1, "
                \o "delays=1/0/0/0, dsn=2.0.0, status=sent (forwarded as B2)\n",
       kind |-> "Postfix"],
      \* no shape of the grammar
      [text |-> "", kind |-> "Unknown"],
      [text |-> "\n", kind |-> "Unknown"],
      [text |-> "~~~~\n", kind |-> "Unknown"],
      [text |-> "A1: removed", kind |-> "Unknown"],
      [text |-> "A1: something else\n", kind |-> "Unknown"],
      [text |-> "a1: removed\n", kind |-> "Unknown"],
      [text |-> ": removed\n", kind |-> "Unknown"],
      [text |-> "A1 removed\n", kind |-> "Unknown"],
      [text |-> "A1:removed\n", kind |-> "Unknown"],
      [text |-> "A1: message-id=<m@x>", kind |-> "Unknown"],
      [text |-> "A1: uid=root from=<root>\n", kind |-> "Unknown"],
      [text |-> "A1: sender non-delivery notification: xyz\n", kind |-> "Unknown"],
      [text |-> "A1: client=h[1.2.3.4], orig_queue_id=B2\n", kind |-> "Unknown"],
      [text |-> "A1: client=h_1\n", kind |-> "Unknown"],
      [text |-> "A1: to=<c@d>, relay=r\n", kind |-> "Unknown"],
      [text |-> "A1: host mx.x[1.2.3.4] says: no\n", kind |-> "Unknown"] }

expected(head, subsystem, body) ==
    IF ~head.ok THEN "Unknown"
    ELSE IF subsystem.sub = "useless" THEN "Useless"
    ELSE IF subsystem.sub = "other" THEN "Unknown"
    ELSE body.kind

InitParse ==
    /\ catalogue = "none"
    /\ states = [f \in Files |-> new(f)]
    /\ lineno = [f \in Files |-> 0]
    /\ showed_message = [f \in Files |-> FALSE]
    /\ at_eof = [f \in Files |-> FALSE]
    /\ order = <<>>
    /\ pc = "classify"
    /\ message_id = None
    /\ shown = <<>>
    /\ \E head \in Heads : \E subsystem \in Subsystems : \E body \in Bodies :
           input = [text |-> head.text \o subsystem.text \o body.text,
                    expect |-> expected(head, subsystem, body)]
    /\ classified = None

Classify ==
    /\ pc = "classify"
    /\ classified' = Some(parse(input.text))
    /\ pc' = "classified"
    /\ UNCHANGED <<catalogue, states, lineno, showed_message, at_eof, order,
                   message_id, shown, input>>

SpecParse == InitParse /\ [][Classify]_vars

\* the same program on the lines of one catalogue
InitThread == InitIn({"thread"})
SpecThread == InitThread /\ [][Next]_vars
InitCycle == InitIn({"cycle"})
SpecCycle == InitCycle /\ [][Next]_vars
InitNoise == InitIn({"noise"})
SpecNoise == InitNoise /\ [][Next]_vars
InitOrphan == InitIn({"orphan"})
SpecOrphan == InitOrphan /\ [][Next]_vars
InitKnot == InitIn({"knot"})
SpecKnot == InitKnot /\ [][Next]_vars
InitTree == InitIn({"tree"})
SpecTree == InitTree /\ [][Next]_vars

(***************************************************************************)
(* Vocabulary of the properties                                            *)
(***************************************************************************)
\* the ids a display call may be asked for: an argument or its bracketed form
QueryIds == MessageIdArgs \cup {bracketed(m) : m \in MessageIdArgs}

FilesWith(id) == {f \in Files : id \in DOMAIN states[f].blocks}
BlockIds == UNION {DOMAIN states[f].blocks : f \in Files}
LinksIn(f) ==
    UNION {states[f].blocks[id].previous_ids \cup states[f].blocks[id].next_ids :
              id \in DOMAIN states[f].blocks}
LinkIds == UNION {LinksIn(f) : f \in Files}
KnownIds == BlockIds \cup LinkIds

\* the texts of the stored lines that the block of id in file f refers to
LinesOf(f, id) ==
    {states[f].lines[states[f].blocks[id].lines[k] + 1] :
        k \in DOMAIN states[f].blocks[id].lines}

\* some shard stored this line of transaction id
HasLine(id, l) == \E f \in FilesWith(id) : stored_text(l) \in LinesOf(f, id)

\* what a display call returned and printed, the text of the lines left out
rendering(d) ==
    [k \in DOMAIN d.acc.out |->
        [id |-> d.acc.out[k].id, indent |-> d.acc.out[k].indent,
         coming_from |-> d.acc.out[k].coming_from,
         flowing_into |-> d.acc.out[k].flowing_into]]
outcome(d) == [found |-> d.found, error |-> d.error, blocks |-> rendering(d)]

\* the results display can give for message id m in the current state
Displays(m) ==
    {display(m, states, order, iteration) :
        iteration \in Perms(candidates(m, states))}

(***************************************************************************)
(* C1.  However the lines are split over the files, a rendered block holds *)
(* the lines and the links of its transaction from every file: as many     *)
(* lines as the files refer to, the texts of all of them, and every        *)
(* previous and next id recorded in any file.                              *)
(***************************************************************************)
RenderedFromAllShards(e) ==
    /\ Len(e.lines) = Sum([f \in Files |->
                              IF f \in FilesWith(e.id)
                              THEN Len(states[f].blocks[e.id].lines) ELSE 0],
                          Files)
    /\ Range(e.lines) = UNION {LinesOf(f, e.id) : f \in FilesWith(e.id)}
    /\ \A f \in FilesWith(e.id) :
           /\ states[f].blocks[e.id].previous_ids \subseteq e.coming_from
           /\ states[f].blocks[e.id].next_ids \subseteq e.flowing_into

C1_ShardsRenderedAsOne ==
    \A k \in DOMAIN shown :
        \A j \in DOMAIN shown[k].acc.out :
            RenderedFromAllShards(shown[k].acc.out[j])

(***************************************************************************)
(* C2.  Resolving a message id against the same state gives the same       *)
(* outcome and the same sequence of rendered blocks whatever the order in  *)
(* which the candidate blocks are processed.                               *)
(***************************************************************************)
C2_ResolveDeterministic ==
    pc = "parsed" =>
        \A m \in QueryIds :
            \A d1, d2 \in Displays(m) : outcome(d1) = outcome(d2)

(***************************************************************************)
(* C3.  The original statement: whenever the next id of A is B and the     *)
(* next id of B is A, resolving a message carried by A or B ends with the  *)
(* cycle error.                                                            *)
(***************************************************************************)
NextOf(id) == UNION {states[f].blocks[id].next_ids : f \in FilesWith(id)}
MutualNext(a, b) == b \in NextOf(a) /\ a \in NextOf(b)

C3_MutualNextAlwaysCycleError ==
    pc = "parsed" =>
        \A m \in QueryIds : \A a, b \in BlockIds :
            (MutualNext(a, b) /\ candidates(m, states) \cap {a, b} # {})
                => \A d \in Displays(m) : d.error = "loop"

(***************************************************************************)
(* C3, amended.  A backward walk whose chosen predecessor was already      *)
(* visited in the walk ends the call with the cycle error; and when the    *)
(* next id of A is B, the next id of B is A, neither has another           *)
(* predecessor and no other transaction carries the message, resolving the *)
(* message ends with the cycle error.                                      *)
(***************************************************************************)
\* the walk stopped on an id whose chosen predecessor it had visited
RevisitsParent(w) ==
    /\ predecessors(states, w.explored[Len(w.explored)]) # {}
    /\ btree_min(predecessors(states, w.explored[Len(w.explored)]))
           \in Range(w.explored)

OnlyEachOther(a, b) ==
    /\ MutualNext(a, b)
    /\ predecessors(states, a) = {b}
    /\ predecessors(states, b) = {a}

CycleRejectedIn(m, d) ==
    /\ \A k \in DOMAIN d.walks :
           RevisitsParent(d.walks[k])
               => d.walks[k].error = "loop" /\ d.error = "loop"
    /\ \A a, b \in BlockIds :
           (/\ OnlyEachOther(a, b)
            /\ candidates(m, states) # {}
            /\ candidates(m, states) \subseteq {a, b})
               => d.found /\ d.error = "loop"

C3_CycleRejected ==
    pc = "parsed" => \A m \in QueryIds : \A d \in Displays(m) : CycleRejectedIn(m, d)

\* run failed with the cycle error on a message carried by one of two
\* transactions that link to each other only
C3_Witness ==
    /\ pc = "failed"
    /\ shown[Len(shown)].error = "loop"
    /\ \E a, b \in BlockIds :
           /\ a # b
           /\ OnlyEachOther(a, b)
           /\ \E m \in message_id : candidates(bracketed(m), states) \cap {a, b} # {}

(***************************************************************************)
(* C4.  The bracketed form of the message id is looked up only after the   *)
(* literal lookup found no block, and the run reports "not found" only     *)
(* after both lookups found no block.  When no file indexes the literal id *)
(* and some file indexes the id between angle brackets, the run does not   *)
(* end "not found": its second call gives what display gives for the       *)
(* bracketed id.                                                           *)
(***************************************************************************)
InAngles(m) == "<" \o m \o ">"

C4_BracketedFallback ==
    /\ Len(shown) <= 2
    /\ pc = "retry" =>
           /\ shown = <<NotFound>>
           /\ \A m \in message_id : candidates(m, states) = {}
    /\ Len(shown) = 2 => shown[1] = NotFound
    /\ pc = "notfound" =>
           /\ shown = <<NotFound, NotFound>>
           /\ \A m \in message_id :
                  /\ candidates(m, states) = {}
                  /\ candidates(InAngles(m), states) = {}
    /\ \A m \in message_id :
           (/\ candidates(m, states) = {}
            /\ candidates(InAngles(m), states) # {}
            /\ pc # "retry")
               => /\ pc \in {"done", "failed"}
                  /\ Len(shown) = 2
                  /\ shown[2] \in Displays(InAngles(m))

\* a run that found nothing for the literal id and rendered a thread for the
\* bracketed one
C4_Witness ==
    /\ pc = "done"
    /\ Len(shown) = 2
    /\ shown[1] = NotFound
    /\ shown[2].acc.out # <<>>
    /\ \A m \in message_id : shown[2] \in Displays(InAngles(m))

(***************************************************************************)
(* C5.  The original statement: X has a message-id line for M and a        *)
(* delivery line ending in "queued as Y" or "forwarded as Y", Y has a      *)
(* stored line, there are no other links; then resolving M renders X as    *)
(* the root flowing into Y, then Y one level deeper coming from X, and     *)
(* nothing else.                                                           *)
(***************************************************************************)
TransactionIds == {"A1", "B2", "C3"}

HandsOver(x, y, m) ==
    /\ y \in BlockIds
    /\ \A f \in Files : LinksIn(f) \subseteq {y}
    /\ \A id \in BlockIds : NextOf(id) \subseteq (IF id = x THEN {y} ELSE {})
    /\ HasLine(x, LineMessageId(x, m))
    /\ HasLine(x, LineQueuedAs(x, y)) \/ HasLine(x, LineForwardedAs(x, y))

TwoBlocks(x, y) ==
    <<[id |-> x, indent |-> BaseIndent, coming_from |-> {},
       flowing_into |-> {y}],
      [id |-> y, indent |-> BaseIndent + IndentStep, coming_from |-> {x},
       flowing_into |-> {}]>>

RendersTwoBlocks(x, y, m) ==
    \A d \in Displays(m) :
        d.found /\ d.error = "none" /\ rendering(d) = TwoBlocks(x, y)

C5_TwoBlockThread ==
    pc = "parsed" =>
        \A m \in QueryIds : \A x, y \in TransactionIds :
            HandsOver(x, y, m) => RendersTwoBlocks(x, y, m)

(***************************************************************************)
(* C5, amended.  The same, for a transaction Y other than X and when no    *)
(* transaction other than X and Y carries M.                               *)
(***************************************************************************)
C5_TwoBlockThreadAlone ==
    pc = "parsed" =>
        \A m \in QueryIds : \A x, y \in TransactionIds :
            (/\ x # y
             /\ HandsOver(x, y, m)
             /\ candidates(m, states) \subseteq {x, y})
                => RendersTwoBlocks(x, y, m)

\* a run that rendered the two blocks of such a hand-over
C5_Witness ==
    /\ pc = "done"
    /\ \E x, y \in TransactionIds :
           /\ x # y
           /\ \E m \in QueryIds :
                  /\ HandsOver(x, y, m)
                  /\ candidates(m, states) \subseteq {x, y}
                  /\ shown[Len(shown)] \in Displays(m)
           /\ rendering(shown[Len(shown)]) = TwoBlocks(x, y)

(***************************************************************************)
(* C6.  In every state, for all transaction ids A and B, B is a successor  *)
(* of A exactly when A is a predecessor of B.                              *)
(***************************************************************************)
C6_SuccessorsMirrorPredecessors ==
    \A a, b \in KnownIds \cup TransactionIds :
        b \in successors(states, a) <=> a \in predecessors(states, b)

\* a rendered hand-over that only one of its two sides recorded
C6_Witness ==
    /\ pc = "done"
    /\ \E a, b \in BlockIds :
           /\ b \in NextOf(a)
           /\ \A f \in FilesWith(b) : a \notin states[f].blocks[b].previous_ids
           /\ a \in predecessors(states, b)
           /\ \E k \in DOMAIN shown[Len(shown)].acc.out :
                  /\ shown[Len(shown)].acc.out[k].id = b
                  /\ a \in shown[Len(shown)].acc.out[k].coming_from

(***************************************************************************)
(* C7.  Within one display call no transaction id is rendered twice,       *)
(* whatever the number of threads of the call.                             *)
(***************************************************************************)
RenderedOnce(d) ==
    \A i, j \in DOMAIN d.acc.out :
        d.acc.out[i].id = d.acc.out[j].id => i = j

C7_RenderedAtMostOnce == \A k \in DOMAIN shown : RenderedOnce(shown[k])

\* a call rendered, once, a transaction that two rendered transactions of
\* the same thread flow into
C7_Witness ==
    /\ pc = "done"
    /\ Len(shown[Len(shown)].walks) = 1
    /\ \E k \in DOMAIN shown[Len(shown)].acc.out :
           Cardinality(shown[Len(shown)].acc.out[k].coming_from
               \cap {shown[Len(shown)].acc.out[j].id :
                        j \in DOMAIN shown[Len(shown)].acc.out}) >= 2

(***************************************************************************)
(* C8.  For every input line, the empty line, a line shorter than the date *)
(* and arbitrary bytes included, the classifier returns exactly one of     *)
(* Postfix (Transaction), Useless (Ignorable) and Unknown (Unrecognized),  *)
(* and a line that has no shape of the grammar gives Unknown.              *)
(***************************************************************************)
C8_ClassifierTotal ==
    pc = "classified" =>
        /\ Cardinality(classified) = 1
        /\ \A r \in classified :
               /\ r.kind \in {"Postfix", "Useless", "Unknown"}
               /\ input.expect = "Unknown" => r = Unknown

\* the empty line has been classified, as Unknown
C8_Witness ==
    pc = "classified" /\ input.text = "" /\ classified = {Unknown}

\* every line of the bounded input set is classified as its parts say
ClassifiedAsExpected ==
    pc = "classified" => \A r \in classified : r.kind = input.expect

(***************************************************************************)
(* C9.  A worker that reads a line the parser does not recognise leaves    *)
(* the lines, the blocks and the message index of its file as they were,   *)
(* notes that it met such a line and goes on reading: the lines that       *)
(* follow are eaten from the state the line found, as if it had not been   *)
(* there.                                                                  *)
(***************************************************************************)
EndsFile(l) == SubSeq(l, Len(l), Len(l)) # "\n"

SkippedBy(f, l) ==
    /\ states' = states
    /\ showed_message'[f]
    /\ pc' = pc
    /\ at_eof'[f] = EndsFile(l)
    /\ \A l2 \in Catalogue(catalogue) : eat(states'[f], l2) = eat(states[f], l2)

C9_UnrecognizedSkipped ==
    [][\A f \in Files : \A l \in Catalogue(catalogue) :
           (parse(l) = Unknown /\ ReadLine(f, l)) => SkippedBy(f, l)]_vars

\* a file whose last line was stored after a line that was not recognised
C9_Witness ==
    \E f \in Files :
        /\ showed_message[f]
        /\ at_eof[f]
        /\ states[f].lines # <<>>
        /\ states[f].lines[Len(states[f].lines)] = stored_text(LineCutShort("A1"))

(***************************************************************************)
(* C10.  In every state of every file: a block has at least one line       *)
(* reference; each reference of a block points into the lines stored for   *)
(* the block's file, at a line that carries the block's id; every id of    *)
(* the message index has a block.                                          *)
(***************************************************************************)
\* the stored text has the id where a line of a transaction has it: after
\* the name of the process and before the colon that ends the id
CarriesId(text, id) ==
    \E p \in 1..Len(text) :
        SubSeq(text, p, p + Len(id) + 3) = "]: " \o id \o ":"

BlockInvariant(s, b) ==
    /\ b.lines # <<>>
    /\ b.file = s.file
    /\ \A k \in DOMAIN b.lines :
           /\ b.lines[k] + 1 \in DOMAIN s.lines
           /\ CarriesId(s.lines[b.lines[k] + 1], b.id)

StateInvariant(s) ==
    /\ \A id \in DOMAIN s.blocks :
           s.blocks[id].id = id /\ BlockInvariant(s, s.blocks[id])
    /\ \A m \in DOMAIN s.message_ids :
           Range(s.message_ids[m]) \subseteq DOMAIN s.blocks

C10_StateInvariant ==
    \A f \in Files : states[f].file = f /\ StateInvariant(states[f])

\* a file that dropped two lines, one of them not recognised, and holds a
\* block with two references
C10_Witness ==
    \E f \in Files :
        /\ pc = "parsing"
        /\ showed_message[f]
        /\ lineno[f] >= Len(states[f].lines) + 2
        /\ \E id \in DOMAIN states[f].blocks :
               Len(states[f].blocks[id].lines) >= 2

(***************************************************************************)
(* C11.  No display call ends with the error of an ancestor that was       *)
(* displayed before its child: no backward walk of a candidate that is not *)
(* displayed yet chooses a predecessor that an earlier thread of the call  *)
(* displayed.                                                              *)
(***************************************************************************)
C11_NeverDisplayedAncestor ==
    pc = "parsed" =>
        \A m \in QueryIds : \A d \in Displays(m) :
            /\ d.error # "ancestor"
            /\ \A k \in DOMAIN d.walks : d.walks[k].error # "ancestor"

(***************************************************************************)
(* C12.  When a display call returns Ok(true), every block that the        *)
(* message index lists for the message id has been rendered, once.         *)
(***************************************************************************)
RenderedIds(d) == {d.acc.out[k].id : k \in DOMAIN d.acc.out}

C12_SuccessRendersCandidates ==
    pc = "parsed" =>
        \A m \in QueryIds : \A d \in Displays(m) :
            (d.found /\ d.error = "none")
                => /\ candidates(m, states) \subseteq RenderedIds(d)
                   /\ RenderedOnce(d)

(***************************************************************************)
(* C13.  The original statement: a backward walk that meets a block with   *)
(* more than one predecessor does not fail there; it warns and goes on     *)
(* with the smallest predecessor.                                          *)
(***************************************************************************)
\* the walk went on from its k-th id to the smallest predecessor of that id
GoesOnToSmallest(w, k) ==
    /\ k < Len(w.explored)
    /\ w.explored[k + 1] \in predecessors(states, w.explored[k])
    /\ \A p \in predecessors(states, w.explored[k]) :
           p = w.explored[k + 1] \/ str_lt(w.explored[k + 1], p)

WarnsIffMany(w, k) ==
    w.explored[k] \in Range(w.warned)
        <=> Cardinality(predecessors(states, w.explored[k])) > 1

ManyNeverFail(w) ==
    \A k \in DOMAIN w.explored :
        Cardinality(predecessors(states, w.explored[k])) > 1
            => WarnsIffMany(w, k) /\ GoesOnToSmallest(w, k)

C13_ManyPredecessorsNeverFail ==
    pc = "parsed" =>
        \A m \in QueryIds : \A d \in Displays(m) :
            \A k \in DOMAIN d.walks : ManyNeverFail(d.walks[k])

(***************************************************************************)
(* C13, amended.  A walk warns about every id it visits that has more than *)
(* one predecessor, and about no other; from an id with predecessors it    *)
(* goes on to the smallest of them, or fails because that one was visited  *)
(* in the walk or displayed by an earlier thread; it ends without error at *)
(* the first id it reaches that has no predecessor, and that id is the     *)
(* root: when it has a block, a thread of the call starts with it, at the  *)
(* base indentation.                                                       *)
(***************************************************************************)
\* the smallest predecessor of the last id of the walk stopped the walk
StoppedBySmallest(w, d) ==
    /\ w.error \in {"loop", "ancestor"}
    /\ d.error = w.error
    /\ \E q \in predecessors(states, w.explored[Len(w.explored)]) :
           /\ \A p \in predecessors(states, w.explored[Len(w.explored)]) :
                  p = q \/ str_lt(q, p)
           /\ w.error = "loop" => q \in Range(w.explored)
           /\ w.error = "ancestor" => q \notin Range(w.explored)

EndsAtRoot(w, d) ==
    /\ w.error = "none"
    /\ w.root = w.explored[Len(w.explored)]
    /\ BlockIds \cap {w.root} \subseteq
           {d.acc.out[j].id : j \in {i \in DOMAIN d.acc.out :
                                        d.acc.out[i].indent = BaseIndent}}

WalkToSmallest(w, d) ==
    /\ w.explored # <<>>
    /\ \A k \in DOMAIN w.explored :
           /\ WarnsIffMany(w, k)
           /\ k < Len(w.explored) => GoesOnToSmallest(w, k)
           /\ k < Len(w.explored) => predecessors(states, w.explored[k]) # {}
    /\ IF predecessors(states, w.explored[Len(w.explored)]) = {}
       THEN EndsAtRoot(w, d)
       ELSE StoppedBySmallest(w, d)

C13_SmallestPredecessor ==
    pc = "parsed" =>
        \A m \in QueryIds : \A d \in Displays(m) :
            \A k \in DOMAIN d.walks : WalkToSmallest(d.walks[k], d)

\* a call whose walk warned about an id with two predecessors, went on and
\* rendered the thread from the root it found
C13_Witness ==
    /\ pc = "done"
    /\ \E k \in DOMAIN shown[Len(shown)].walks :
           /\ shown[Len(shown)].walks[k].warned # <<>>
           /\ Len(shown[Len(shown)].walks[k].explored) >= 2
           /\ shown[Len(shown)].walks[k].error = "none"
           /\ shown[Len(shown)].acc.out # <<>>
           /\ shown[Len(shown)].acc.out[1].id = shown[Len(shown)].walks[k].root
           /\ shown[Len(shown)].acc.out[1].indent = BaseIndent

(***************************************************************************)
(* C14.  What a display call prints is a depth-first pre-order of each     *)
(* thread: the first block of a thread is the root of a walk, at the base  *)
(* indentation; every other block is one indentation step deeper than the  *)
(* block it was reached from, which is a predecessor of it printed before  *)
(* it; the blocks reached from one block appear in ascending order of id;  *)
(* and a successor of a block that is not printed before the block is      *)
(* printed below it, before anything that is not below it.                 *)
(***************************************************************************)
\* the entry the k-th entry of o was reached from: the last one before it
\* that is one step less deep
ReachedFrom(o, k) ==
    LET shallower == {j \in 1..(k - 1) : o[j].indent = o[k].indent - IndentStep}
    IN  IF shallower = {} THEN 0
        ELSE CHOOSE j \in shallower : \A i \in shallower : i <= j

OneStepDeeper(o, k, from) ==
    /\ from # 0
    /\ o[k].indent = o[from].indent + IndentStep
    /\ o[k].id \in successors(states, o[from].id)
    /\ \A i \in (from + 1)..(k - 1) : o[i].indent >= o[k].indent

\* the entries reached from the same entry as the k-th, before it, have
\* smaller ids
AfterSmallerSiblings(o, k, from) ==
    \A j \in (from + 1)..(k - 1) :
        o[j].indent = o[k].indent => str_lt(o[j].id, o[k].id)

\* the successors of the k-th entry that have a block are printed, and those
\* printed after it are below it
SuccessorsBelow(o, k) ==
    \A s \in successors(states, o[k].id) \cap BlockIds :
        \E p \in DOMAIN o :
            /\ o[p].id = s
            /\ p > k => \A i \in (k + 1)..p : o[i].indent > o[k].indent

PreOrder(d) ==
    \A k \in DOMAIN d.acc.out :
        /\ IF d.acc.out[k].indent = BaseIndent
           THEN \E j \in DOMAIN d.walks :
                    /\ d.walks[j].error = "none"
                    /\ d.walks[j].root = d.acc.out[k].id
           ELSE /\ OneStepDeeper(d.acc.out, k, ReachedFrom(d.acc.out, k))
                /\ AfterSmallerSiblings(d.acc.out, k, ReachedFrom(d.acc.out, k))
        /\ d.error = "none" => SuccessorsBelow(d.acc.out, k)

C14_DepthFirstPreOrder ==
    /\ IndentStep = 4
    /\ pc = "parsed" =>
           \A m \in QueryIds : \A d \in Displays(m) :
               /\ d.acc.out # <<>> => d.acc.out[1].indent = BaseIndent
               /\ PreOrder(d)

\* a call that printed A1, B2 below it and C3 below B2, C3 being a
\* successor of A1 as well
C14_Witness ==
    /\ pc = "done"
    /\ Len(shown[Len(shown)].acc.out) = 3
    /\ shown[Len(shown)].acc.out[1].indent = BaseIndent
    /\ shown[Len(shown)].acc.out[2].indent = BaseIndent + IndentStep
    /\ shown[Len(shown)].acc.out[3].indent = BaseIndent + IndentStep + IndentStep
    /\ shown[Len(shown)].acc.out[3].id
           \in shown[Len(shown)].acc.out[1].flowing_into

(***************************************************************************)
(* C15.  Every display call returns, with Ok or with one of the two        *)
(* ensure! errors.  Each backward walk visits no id twice and ends at an   *)
(* id without predecessor or with an error; the forward traversals         *)
(* process each id they visit once: it is printed once or, having no       *)
(* block, warned about once.                                               *)
(***************************************************************************)
NoRepeat(seq) == \A i, j \in DOMAIN seq : seq[i] = seq[j] => i = j

WalkEnds(w) ==
    /\ NoRepeat(w.explored)
    /\ Range(w.explored) \subseteq KnownIds
    /\ w.error \in {"none", "loop", "ancestor"}
    /\ w.error = "none" =>
           /\ w.root = w.explored[Len(w.explored)]
           /\ predecessors(states, w.root) = {}

TraversalEnds(d) ==
    /\ ~d.acc.panicked
    /\ NoRepeat([k \in DOMAIN d.acc.out |-> d.acc.out[k].id] \o d.acc.missing)
    /\ RenderedIds(d) \cup Range(d.acc.missing) = d.acc.displayed
    /\ d.acc.displayed \subseteq KnownIds

C15_DisplayTerminates ==
    pc = "parsed" =>
        \A m \in QueryIds : \A d \in Displays(m) :
            /\ d.error \in {"none", "loop", "ancestor"}
            /\ \A k \in DOMAIN d.walks : WalkEnds(d.walks[k])
            /\ Len(d.walks) <= Cardinality(candidates(m, states))
            /\ TraversalEnds(d)

\* a call that walked back past a cycle that is not on the path of the
\* smallest predecessors, then printed the blocks of the cycle once each
C15_Witness ==
    /\ pc = "done"
    /\ Len(shown[Len(shown)].walks) = 1
    /\ shown[Len(shown)].walks[1].warned # <<>>
    /\ Len(shown[Len(shown)].acc.out) = 3
    /\ shown[Len(shown)].acc.out[2].id
           \in shown[Len(shown)].acc.out[3].flowing_into
    /\ shown[Len(shown)].acc.out[3].id
           \in shown[Len(shown)].acc.out[2].flowing_into

(***************************************************************************)
(* C16.  Every stored line is the text of a line that was read, without    *)
(* its trailing newline when it has one and whole when it has none.        *)
(***************************************************************************)
WithoutNewline(l) == IF EndsFile(l) THEN l ELSE SubSeq(l, 1, Len(l) - 1)

C16_StoredIsRawLine ==
    \A f \in Files :
        \A k \in DOMAIN states[f].lines :
            \E l \in Catalogue(catalogue) :
                states[f].lines[k] = WithoutNewline(l)

====
